---- MODULE Spec2Model ----
(***************************************************************************)
(* salt/states/rabbitmq_user.py: the state functions present and absent,   *)
(* run against the rabbitmq execution module (__salt__['rabbitmq.*']).     *)
(* One call runs at a time; every step of a call is one backend call       *)
(* together with the local code up to the next backend call.               *)
(***************************************************************************)
EXTENDS Integers, Sequences, FiniteSets, TLC

\* ------------------------------------------------------------------ bounds
\* Longest perms list a caller passes.
MaxPerms == 2

\* ------------------------------------------------------- sample value sets
Names == {"bob"}
Tags == {"administrator", "monitoring"}
Vhosts == {"/", "dev"}
\* (conf, write, read) triples the broker may hold for a vhost
Triples == {<<".*", ".*", ".*">>, <<"", "", ".*">>}
\* perm[0], perm[1], perm[2] of the entries a caller asks for
DesiredTriples == {<<".*", ".*", ".*">>}
\* password=None
NoPassword == "<None>"
Passwords == {"p", NoPassword}
\* what the broker may hold as the credential of an existing user
StoredPasswords == {"old"}
\* messages a CommandExecutionError carries
Errors == {"timeout"}
NoError == ""

\* ------------------------------------------------------------------ dicts
EmptyDict == <<>>

DictSet(d, k, v) == [x \in (DOMAIN d) \cup {k} |-> IF x = k THEN v ELSE d[x]]

DictDel(d, k) == [x \in (DOMAIN d) \ {k} |-> d[x]]

\* dict.update({k: v}) on ret['changes']
update(changes, k, v) == DictSet(changes, k, v)

\* 'template'.format(arg): the template and the value it is filled with
format(template, arg) == <<template, arg>>

PartialFcns(S, T) == UNION {[D -> T] : D \in SUBSET S}

\* A perms argument: a list of single-key dicts {vhost: (conf, write, read)}
PermEntries == [vhost : Vhosts, perm : DesiredTriples]

PermLists == UNION {[1..n -> PermEntries] : n \in 0..MaxPerms}

\* ------------------------------------------------- the rabbitmq backend
\* users: name -> set of tags (list_users); passwords: name -> credential;
\* permissions: name -> (vhost -> triple) (list_user_permissions)
Backends ==
    {[users |-> u, passwords |-> p, permissions |-> q] :
        u \in {EmptyDict},
        p \in {EmptyDict},
        q \in {EmptyDict}}
    \cup
    UNION {{[users |-> [x \in {n} |-> t],
             passwords |-> [x \in {n} |-> s],
             permissions |-> [x \in {n} |-> m]] :
                t \in SUBSET Tags, s \in StoredPasswords,
                m \in PartialFcns(Vhosts, Triples)} : n \in Names}

user_exists(b, n) == n \in DOMAIN b.users

add_user(b, n, pw) ==
    [users |-> DictSet(b.users, n, {}),
     passwords |-> DictSet(b.passwords, n, pw),
     permissions |-> DictSet(b.permissions, n, EmptyDict)]

change_password(b, n, pw) == [b EXCEPT !.passwords = DictSet(@, n, pw)]

clear_password(b, n) == [b EXCEPT !.passwords = DictSet(@, n, NoPassword)]

list_users(b) == b.users

set_user_tags(b, n, t) == [b EXCEPT !.users = DictSet(@, n, t)]

list_user_permissions(b, n) ==
    IF n \in DOMAIN b.permissions THEN b.permissions[n] ELSE EmptyDict

set_permissions(b, vhost, n, perm) ==
    [b EXCEPT !.permissions =
        DictSet(@, n, DictSet(list_user_permissions(b, n), vhost, perm))]

delete_user(b, n) ==
    [users |-> DictDel(b.users, n),
     passwords |-> DictDel(b.passwords, n),
     permissions |-> DictDel(b.permissions, n)]

Mutators == {"add_user", "change_password", "clear_password",
             "set_user_tags", "set_permissions", "delete_user"}

Readers == {"user_exists", "list_users", "list_user_permissions"}

\* One backend call as the call log records it: err is NoError when the call
\* returned and the CommandExecutionError's message when it raised.
Call(fn, n, pw, t, vhost, perm, err) ==
    [fn |-> fn, name |-> n, password |-> pw, tags |-> t,
     vhost |-> vhost, perm |-> perm, err |-> err]

\* the outcomes of one backend call: it returns, or raises with a message
Outcomes == {NoError} \cup Errors

\* ------------------------------------------------------------------ state
VARIABLES
    rabbitmq,       \* the broker's users, credentials and permissions
    rabbitmq0,      \* the broker as it was when the running call began
    log,            \* the backend calls of the running call, in order
    pc,             \* where the running call is
    op,             \* "present" or "absent"
    test,           \* __opts__['test']
    name, password, force, tags, perms,     \* the call's arguments
    ret,            \* the ret dict of the call
    user,           \* local: what user_exists returned
    new_tags,       \* local: what _check_tags_changes returned
    existing_perms, \* local: what list_user_permissions returned
    outcome,        \* "running", "returned" or "raised"
    exc,            \* the uncaught exception of a raised call
    prev            \* the call made before the running one, when a caller
                    \* repeats a call; NoCall otherwise

vars == <<rabbitmq, rabbitmq0, log, pc, op, test, name, password, force,
          tags, perms, ret, user, new_tags, existing_perms, outcome, exc,
          prev>>

args == <<op, test, name, password, force, tags, perms>>

locals == <<user, new_tags, existing_perms>>

\* no earlier call is remembered
NoCall ==
    [op |-> "none", test |-> FALSE, name |-> "bob", password |-> NoPassword,
     force |-> FALSE, tags |-> {}, perms |-> <<>>, result |-> "False",
     changes |-> EmptyDict, outcome |-> "returned", failed |-> FALSE,
     mutated |-> FALSE]

\* ret = {'name': name, 'result': False, 'comment': '', 'changes': {}}
NewRet(n) ==
    [name |-> n, result |-> "False", comment |-> format("", ""),
     changes |-> EmptyDict]

Init ==
    /\ rabbitmq \in Backends
    /\ rabbitmq0 = rabbitmq
    /\ log = <<>>
    /\ pc = "idle"
    /\ op = "none"
    /\ test = FALSE
    /\ name = "bob"
    /\ password = NoPassword
    /\ force = FALSE
    /\ tags = {}
    /\ perms = <<>>
    /\ ret = NewRet("bob")
    /\ user = FALSE
    /\ new_tags = {}
    /\ existing_perms = EmptyDict
    /\ outcome = "returned"
    /\ exc = ""
    /\ prev = NoCall

\* return ret
Return(r) ==
    /\ ret' = r
    /\ pc' = "done"
    /\ outcome' = "returned"
    /\ exc' = ""

\* an exception no except clause of the call catches
Raise(r, e) ==
    /\ ret' = r
    /\ pc' = "done"
    /\ outcome' = "raised"
    /\ exc' = e

Goto(r, l) ==
    /\ ret' = r
    /\ pc' = l
    /\ UNCHANGED <<outcome, exc>>

\* except CommandExecutionError as err: ret['comment'] = 'Error: {0}'.format(err)
Failed(r, err) == [r EXCEPT !.comment = format("Error: {0}", err)]

Record(r, k, v) == [r EXCEPT !.changes = update(@, k, v)]

\* ------------------------------------------------------- local functions

\* _check_tags_changes answering the user's tags without taking the difference
_check_tags_changes_NoDifference(b, n, new, err) ==
    IF new # {}
    THEN IF err # NoError
         THEN [exc |-> "", value |-> {}]
         ELSE IF n \notin DOMAIN list_users(b)
              THEN [exc |-> "KeyError", value |-> {}]
              ELSE [exc |-> "", value |-> list_users(b)[n]]
    ELSE [exc |-> "", value |-> {}]

\* _check_tags_changes(name, new_tags): err is how its list_users call ended.
\* A CommandExecutionError is logged and answered by []; a name that
\* list_users does not hold is a KeyError nothing catches.
_check_tags_changes(b, n, new, err) ==
    IF new # {}
    THEN IF err # NoError
         THEN [exc |-> "", value |-> {}]
         ELSE IF n \notin DOMAIN list_users(b)
              THEN [exc |-> "KeyError", value |-> {}]
              ELSE [exc |-> "", value |-> list_users(b)[n] \ new]
    ELSE [exc |-> "", value |-> {}]

\* perm_need_change of _check_perms_changes over the permissions it compares
perm_need_change(newperms, existing) ==
    \E i \in DOMAIN newperms :
        \/ newperms[i].vhost \notin DOMAIN existing
        \/ newperms[i].perm # existing[newperms[i].vhost]

\* _check_perms_changes(name, newperms, existing=...): the local existing_perms
\* is assigned only when existing is None, and the loop reads existing_perms.
_check_perms_changes(newperms, existing_is_None, listed) ==
    IF newperms = <<>>
    THEN [exc |-> "", value |-> FALSE]
    ELSE IF ~existing_is_None
         THEN [exc |-> "UnboundLocalError", value |-> FALSE]
         ELSE [exc |-> "", value |-> perm_need_change(newperms, listed)]

\* any((force, perms, tags))
any(f, ps, t) == f \/ ps # <<>> \/ t # {}

\* ---------------------------------------------------------------- present

\* present(name, password, force, tags, perms) under __opts__['test'] = dry
CallPresent ==
    \E n \in Names, pw \in Passwords, f \in BOOLEAN, t \in SUBSET Tags,
       ps \in PermLists, dry \in BOOLEAN :
        /\ pc = "idle"
        /\ op' = "present"
        /\ test' = dry
        /\ name' = n
        /\ password' = pw
        /\ force' = f
        /\ tags' = t
        /\ perms' = ps
        /\ ret' = NewRet(n)
        /\ pc' = "present_user_exists"
        /\ outcome' = "running"
        /\ exc' = ""
        /\ log' = <<>>
        /\ rabbitmq0' = rabbitmq
        /\ user' = FALSE
        /\ new_tags' = {}
        /\ existing_perms' = EmptyDict
        /\ UNCHANGED <<rabbitmq, prev>>

\* PresentUserExists without the return of its except clause
PresentUserExists_NoReturn ==
    /\ pc = "present_user_exists"
    /\ \E err \in Outcomes :
        /\ log' = Append(log, Call("user_exists", name, "", {}, "", <<>>, err))
        /\ IF err # NoError
           THEN Goto(Failed(ret, err), "present_ensure") /\ UNCHANGED user
           ELSE Goto(ret, "present_ensure") /\ user' = user_exists(rabbitmq, name)
    /\ UNCHANGED <<rabbitmq, rabbitmq0, args, prev, new_tags, existing_perms>>

\* lines 110-114: user = rabbitmq.user_exists(name)
PresentUserExists ==
    /\ pc = "present_user_exists"
    /\ \E err \in Outcomes :
        /\ log' = Append(log, Call("user_exists", name, "", {}, "", <<>>, err))
        /\ IF err # NoError
           THEN Return(Failed(ret, err)) /\ UNCHANGED user
           ELSE Goto(ret, "present_ensure") /\ user' = user_exists(rabbitmq, name)
    /\ UNCHANGED <<rabbitmq, rabbitmq0, args, prev, new_tags, existing_perms>>

\* lines 116-155 up to the next backend call: the short circuit, the branch
\* for a missing user (its log.debug argument '...'.foramt(name) raises
\* AttributeError before add_user is reached) and the force branch
PresentEnsure ==
    /\ pc = "present_ensure"
    /\ IF user /\ ~any(force, perms, tags)
       THEN Return([ret EXCEPT !.comment =
                        format("User '{0}' is already present.", name)])
       ELSE IF ~user
            THEN IF ~test
                 THEN Raise(ret, "AttributeError")
                 ELSE Goto(Record(ret, "user", [old |-> "", new |-> name]),
                           "present_check_tags")
            ELSE IF force
                 THEN IF password # NoPassword
                      THEN IF ~test
                           THEN Goto(ret, "present_change_password")
                           ELSE Goto(Record(ret, "password",
                                       [old |-> "", new |-> "Set password."]),
                                     "present_check_tags")
                      ELSE IF ~test
                           THEN Goto(ret, "present_clear_password")
                           ELSE Goto(Record(ret, "password",
                                       [old |-> "Removed password.", new |-> ""]),
                                     "present_check_tags")
                 ELSE Goto(ret, "present_check_tags")
    /\ UNCHANGED <<rabbitmq, rabbitmq0, log, args, prev, locals>>

\* lines 137-144: rabbitmq.change_password(name, password)
PresentChangePassword ==
    /\ pc = "present_change_password"
    /\ \E err \in Outcomes :
        /\ log' = Append(log,
                    Call("change_password", name, password, {}, "", <<>>, err))
        /\ IF err # NoError
           THEN Return(Failed(ret, err)) /\ UNCHANGED rabbitmq
           ELSE /\ rabbitmq' = change_password(rabbitmq, name, password)
                /\ Goto(Record(ret, "password",
                          [old |-> "", new |-> "Set password."]),
                        "present_check_tags")
    /\ UNCHANGED <<rabbitmq0, args, prev, locals>>

\* PresentClearPassword running on into the change_password branch
PresentClearPassword_FallsThrough ==
    /\ pc = "present_clear_password"
    /\ \E err \in Outcomes :
        /\ log' = Append(log,
                    Call("clear_password", name, "", {}, "", <<>>, err))
        /\ IF err # NoError
           THEN Return(Failed(ret, err)) /\ UNCHANGED rabbitmq
           ELSE /\ rabbitmq' = clear_password(rabbitmq, name)
                /\ Goto(Record(ret, "password",
                          [old |-> "Removed password.", new |-> ""]),
                        "present_change_password")
    /\ UNCHANGED <<rabbitmq0, args, prev, locals>>

\* lines 146-155: rabbitmq.clear_password(name)
PresentClearPassword ==
    /\ pc = "present_clear_password"
    /\ \E err \in Outcomes :
        /\ log' = Append(log,
                    Call("clear_password", name, "", {}, "", <<>>, err))
        /\ IF err # NoError
           THEN Return(Failed(ret, err)) /\ UNCHANGED rabbitmq
           ELSE /\ rabbitmq' = clear_password(rabbitmq, name)
                /\ Goto(Record(ret, "password",
                          [old |-> "Removed password.", new |-> ""]),
                        "present_check_tags")
    /\ UNCHANGED <<rabbitmq0, args, prev, locals>>

\* lines 157-159, 165-167: new_tags = _check_tags_changes(name, tags), which
\* calls list_users only for non-empty tags
PresentCheckTags ==
    /\ pc = "present_check_tags"
    /\ \E err \in Outcomes :
        /\ tags = {} => err = NoError
        /\ log' = IF tags # {}
                  THEN Append(log, Call("list_users", "", "", {}, "", <<>>, err))
                  ELSE log
        /\ LET c == _check_tags_changes(rabbitmq, name, tags, err) IN
            /\ new_tags' = c.value
            /\ IF c.exc # ""
               THEN Raise(ret, c.exc)
               ELSE IF c.value # {}
                    THEN IF ~test
                         THEN Goto(ret, "present_set_user_tags")
                         ELSE Goto(Record(ret, "tags",
                                     [old |-> tags, new |-> c.value]),
                                   "present_list_user_permissions")
                    ELSE Goto(ret, "present_list_user_permissions")
    /\ UNCHANGED <<rabbitmq, rabbitmq0, args, prev, user, existing_perms>>

\* PresentSetUserTags going back to read the tags it has just set
PresentSetUserTags_Recheck ==
    /\ pc = "present_set_user_tags"
    /\ \E err \in Outcomes :
        /\ log' = Append(log,
                    Call("set_user_tags", name, "", tags, "", <<>>, err))
        /\ IF err # NoError
           THEN Return(Failed(ret, err)) /\ UNCHANGED rabbitmq
           ELSE /\ rabbitmq' = set_user_tags(rabbitmq, name, tags)
                /\ Goto(Record(ret, "tags", [old |-> tags, new |-> new_tags]),
                        "present_check_tags")
    /\ UNCHANGED <<rabbitmq0, args, prev, locals>>

\* PresentSetUserTags passing the union of the held and the desired tags
PresentSetUserTags_Additive ==
    /\ pc = "present_set_user_tags"
    /\ \E err \in Outcomes :
        /\ log' = Append(log,
                    Call("set_user_tags", name, "",
                         tags \cup list_users(rabbitmq)[name], "", <<>>, err))
        /\ IF err # NoError
           THEN Return(Failed(ret, err)) /\ UNCHANGED rabbitmq
           ELSE /\ rabbitmq' = set_user_tags(rabbitmq, name,
                                    tags \cup list_users(rabbitmq)[name])
                /\ Goto(Record(ret, "tags", [old |-> tags, new |-> new_tags]),
                        "present_list_user_permissions")
    /\ UNCHANGED <<rabbitmq0, args, prev, locals>>

\* lines 160-167: rabbitmq.set_user_tags(name, tags)
PresentSetUserTags ==
    /\ pc = "present_set_user_tags"
    /\ \E err \in Outcomes :
        /\ log' = Append(log,
                    Call("set_user_tags", name, "", tags, "", <<>>, err))
        /\ IF err # NoError
           THEN Return(Failed(ret, err)) /\ UNCHANGED rabbitmq
           ELSE /\ rabbitmq' = set_user_tags(rabbitmq, name, tags)
                /\ Goto(Record(ret, "tags", [old |-> tags, new |-> new_tags]),
                        "present_list_user_permissions")
    /\ UNCHANGED <<rabbitmq0, args, prev, locals>>

\* lines 168-172: existing_perms = rabbitmq.list_user_permissions(name)
PresentListUserPermissions ==
    /\ pc = "present_list_user_permissions"
    /\ \E err \in Outcomes :
        /\ log' = Append(log,
                    Call("list_user_permissions", name, "", {}, "", <<>>, err))
        /\ IF err # NoError
           THEN Return(Failed(ret, err)) /\ UNCHANGED existing_perms
           ELSE /\ existing_perms' = list_user_permissions(rabbitmq, name)
                /\ Goto(ret, "present_check_perms")
    /\ UNCHANGED <<rabbitmq, rabbitmq0, args, prev, user, new_tags>>

\* lines 174-189: _check_perms_changes(name, perms, existing=existing_perms)
\* and the loop over perms. The loop's first pass sets
\* changes['perms'] = {'old': existing_perms, 'new': ''} and then calls
\* ''.update(...), an AttributeError, so no second pass exists.
PresentCheckPerms ==
    /\ pc = "present_check_perms"
    /\ LET c == _check_perms_changes(perms, FALSE, existing_perms) IN
        IF c.exc # ""
        THEN Raise(ret, c.exc) /\ UNCHANGED <<rabbitmq, log>>
        ELSE IF c.value
             THEN IF ~test
                  THEN \E err \in Outcomes :
                        /\ log' = Append(log,
                                    Call("set_permissions", name, "", {},
                                         perms[1].vhost, perms[1].perm, err))
                        /\ IF err # NoError
                           THEN Return(Failed(ret, err)) /\ UNCHANGED rabbitmq
                           ELSE /\ rabbitmq' = set_permissions(rabbitmq,
                                       perms[1].vhost, name, perms[1].perm)
                                /\ Raise(Record(ret, "perms",
                                           [old |-> existing_perms, new |-> ""]),
                                         "AttributeError")
                  ELSE /\ Raise(Record(ret, "perms",
                                  [old |-> existing_perms, new |-> ""]),
                                "AttributeError")
                       /\ UNCHANGED <<rabbitmq, log>>
             ELSE Goto(ret, "present_result") /\ UNCHANGED <<rabbitmq, log>>
    /\ UNCHANGED <<rabbitmq0, args, prev, locals>>

\* PresentResult reporting every non-empty changes as pending, test or not
PresentResult_AlwaysPending ==
    /\ pc = "present_result"
    /\ IF DOMAIN ret.changes = {}
       THEN Return([ret EXCEPT !.result = "True", !.comment =
                format("'{0}' is already in the desired state.", name)])
       ELSE Return([ret EXCEPT !.result = "None", !.comment =
                format("Configuration for '{0}' will change.", name)])
    /\ UNCHANGED <<rabbitmq, rabbitmq0, log, args, prev, locals>>

\* lines 191-202: the result and the comment
PresentResult ==
    /\ pc = "present_result"
    /\ IF DOMAIN ret.changes = {}
       THEN Return([ret EXCEPT !.result = "True", !.comment =
                format("'{0}' is already in the desired state.", name)])
       ELSE IF test
            THEN Return([ret EXCEPT !.result = "None", !.comment =
                    format("Configuration for '{0}' will change.", name)])
            ELSE Return([ret EXCEPT !.result = "True", !.comment =
                    format("'{0}' was configured.", name)])
    /\ UNCHANGED <<rabbitmq, rabbitmq0, log, args, prev, locals>>

\* ----------------------------------------------------------------- absent

\* absent(name) under __opts__['test'] = dry
CallAbsent ==
    \E n \in Names, dry \in BOOLEAN :
        /\ pc = "idle"
        /\ op' = "absent"
        /\ test' = dry
        /\ name' = n
        /\ password' = NoPassword
        /\ force' = FALSE
        /\ tags' = {}
        /\ perms' = <<>>
        /\ ret' = NewRet(n)
        /\ pc' = "absent_user_exists"
        /\ outcome' = "running"
        /\ exc' = ""
        /\ log' = <<>>
        /\ rabbitmq0' = rabbitmq
        /\ user' = FALSE
        /\ new_tags' = {}
        /\ existing_perms' = EmptyDict
        /\ UNCHANGED <<rabbitmq, prev>>

\* AbsentUserExists without the test of __opts__['test'] before delete_user
AbsentUserExists_IgnoresTest ==
    /\ pc = "absent_user_exists"
    /\ \E err \in Outcomes :
        /\ log' = Append(log, Call("user_exists", name, "", {}, "", <<>>, err))
        /\ IF err # NoError
           THEN Return(Failed(ret, err)) /\ UNCHANGED user
           ELSE /\ user' = user_exists(rabbitmq, name)
                /\ IF user_exists(rabbitmq, name)
                   THEN Goto(ret, "absent_delete_user")
                   ELSE Return([ret EXCEPT !.result = "True", !.comment =
                            format("The user '{0}' is not present.", name)])
    /\ UNCHANGED <<rabbitmq, rabbitmq0, args, prev, new_tags, existing_perms>>

\* lines 217-224, 230-236: user_exists = rabbitmq.user_exists(name) and the
\* branch on it up to the delete_user call
AbsentUserExists ==
    /\ pc = "absent_user_exists"
    /\ \E err \in Outcomes :
        /\ log' = Append(log, Call("user_exists", name, "", {}, "", <<>>, err))
        /\ IF err # NoError
           THEN Return(Failed(ret, err)) /\ UNCHANGED user
           ELSE /\ user' = user_exists(rabbitmq, name)
                /\ IF user_exists(rabbitmq, name)
                   THEN IF ~test
                        THEN Goto(ret, "absent_delete_user")
                        ELSE Goto(Record(ret, "name",
                                    [old |-> name, new |-> ""]),
                                  "absent_result")
                   ELSE Return([ret EXCEPT !.result = "True", !.comment =
                            format("The user '{0}' is not present.", name)])
    /\ UNCHANGED <<rabbitmq, rabbitmq0, args, prev, new_tags, existing_perms>>

\* lines 225-232: rabbitmq.delete_user(name)
AbsentDeleteUser ==
    /\ pc = "absent_delete_user"
    /\ \E err \in Outcomes :
        /\ log' = Append(log, Call("delete_user", name, "", {}, "", <<>>, err))
        /\ IF err # NoError
           THEN Return(Failed(ret, err)) /\ UNCHANGED rabbitmq
           ELSE /\ rabbitmq' = delete_user(rabbitmq, name)
                /\ Goto(Record(ret, "name", [old |-> name, new |-> ""]),
                        "absent_result")
    /\ UNCHANGED <<rabbitmq0, args, prev, locals>>

\* AbsentResult without the branch on __opts__['test']
AbsentResult_NoTest ==
    /\ pc = "absent_result"
    /\ Return([ret EXCEPT !.result = "True", !.comment =
            format("The user '{0}' was removed.", name)])
    /\ UNCHANGED <<rabbitmq, rabbitmq0, log, args, prev, locals>>

\* lines 238-245
AbsentResult ==
    /\ pc = "absent_result"
    /\ IF test /\ DOMAIN ret.changes # {}
       THEN Return([ret EXCEPT !.result = "None", !.comment =
                format("The user '{0}' will be removed.", name)])
       ELSE Return([ret EXCEPT !.result = "True", !.comment =
                format("The user '{0}' was removed.", name)])
    /\ UNCHANGED <<rabbitmq, rabbitmq0, log, args, prev, locals>>

\* the caller has the call's result (or its exception); the call's frame is
\* gone and the next call starts from the broker as it now is
Finish ==
    /\ pc = "done"
    /\ pc' = "idle"
    /\ rabbitmq0' = rabbitmq
    /\ log' = <<>>
    /\ op' = "none"
    /\ test' = FALSE
    /\ name' = "bob"
    /\ password' = NoPassword
    /\ force' = FALSE
    /\ tags' = {}
    /\ perms' = <<>>
    /\ ret' = NewRet("bob")
    /\ user' = FALSE
    /\ new_tags' = {}
    /\ existing_perms' = EmptyDict
    /\ outcome' = "returned"
    /\ exc' = ""
    /\ UNCHANGED <<rabbitmq, prev>>

Next ==
    \/ CallPresent
    \/ PresentUserExists
    \/ PresentEnsure
    \/ PresentChangePassword
    \/ PresentClearPassword
    \/ PresentCheckTags
    \/ PresentSetUserTags
    \/ PresentListUserPermissions
    \/ PresentCheckPerms
    \/ PresentResult
    \/ CallAbsent
    \/ AbsentUserExists
    \/ AbsentDeleteUser
    \/ AbsentResult
    \/ Finish

Spec == Init /\ [][Next]_vars

\* ------------------------------------------------- a call and its repetition
\* A caller calls present and, having its result, calls present once more
\* with the same arguments, in dry-run or in apply mode.

\* the first of the two calls
FirstPresent ==
    /\ prev = NoCall
    /\ CallPresent

\* the first call is over: the caller keeps what it asked for and what it got
FinishFirst ==
    /\ pc = "done"
    /\ prev = NoCall
    /\ prev' = [op |-> op, test |-> test, name |-> name,
                password |-> password, force |-> force, tags |-> tags,
                perms |-> perms, result |-> ret.result,
                changes |-> ret.changes, outcome |-> outcome,
                failed |-> \E i \in DOMAIN log : log[i].err # NoError,
                mutated |-> rabbitmq # rabbitmq0]
    /\ pc' = "idle"
    /\ rabbitmq0' = rabbitmq
    /\ log' = <<>>
    /\ op' = "none"
    /\ test' = FALSE
    /\ name' = "bob"
    /\ password' = NoPassword
    /\ force' = FALSE
    /\ tags' = {}
    /\ perms' = <<>>
    /\ ret' = NewRet("bob")
    /\ user' = FALSE
    /\ new_tags' = {}
    /\ existing_perms' = EmptyDict
    /\ outcome' = "returned"
    /\ exc' = ""
    /\ UNCHANGED rabbitmq

\* present called again with the arguments of the first call
PresentAgain ==
    \E dry \in BOOLEAN :
        /\ pc = "idle"
        /\ prev.op = "present"
        /\ op' = "present"
        /\ test' = dry
        /\ name' = prev.name
        /\ password' = prev.password
        /\ force' = prev.force
        /\ tags' = prev.tags
        /\ perms' = prev.perms
        /\ ret' = NewRet(prev.name)
        /\ pc' = "present_user_exists"
        /\ outcome' = "running"
        /\ exc' = ""
        /\ log' = <<>>
        /\ rabbitmq0' = rabbitmq
        /\ user' = FALSE
        /\ new_tags' = {}
        /\ existing_perms' = EmptyDict
        /\ UNCHANGED <<rabbitmq, prev>>

NextRerun ==
    \/ FirstPresent
    \/ PresentUserExists
    \/ PresentEnsure
    \/ PresentChangePassword
    \/ PresentClearPassword
    \/ PresentCheckTags
    \/ PresentSetUserTags
    \/ PresentListUserPermissions
    \/ PresentCheckPerms
    \/ PresentResult
    \/ FinishFirst
    \/ PresentAgain

SpecRerun == Init /\ [][NextRerun]_vars

\* ------------------------------------------------------------ properties

\* how many times the running call has invoked the backend function fn
Count(fn) == Cardinality({i \in DOMAIN log : log[i].fn = fn})

\* fn was invoked and returned normally
Succeeded(fn) == \E i \in DOMAIN log : log[i].fn = fn /\ log[i].err = NoError

NoBackendFailure == \A i \in DOMAIN log : log[i].err = NoError

\* the user existed in the broker when the running call began
Existed == user_exists(rabbitmq0, name)

\* the tags the broker held for the user when the running call began
Observed == rabbitmq0.users[name]

\* the changes key each mutator's success is recorded under
ChangeKey(fn) ==
    CASE fn = "add_user" -> "user"
      [] fn \in {"change_password", "clear_password"} -> "password"
      [] fn = "set_user_tags" -> "tags"
      [] fn = "set_permissions" -> "perms"
      [] OTHER -> "name"

\* C1: in dry-run mode (__opts__['test'] true) present and absent invoke no
\* backend mutator, whatever the arguments, the broker's state and the
\* failures of the reads, and the broker stays as it was before the call.
C1_DryRunNeverMutates ==
    test => /\ rabbitmq = rabbitmq0
            /\ \A i \in DOMAIN log : log[i].fn \notin Mutators

\* a dry-run present has returned having recorded a tags change it did not apply
C1_Witness ==
    /\ test
    /\ op = "present"
    /\ pc = "done"
    /\ outcome = "returned"
    /\ "tags" \in DOMAIN ret.changes

\* C2: present and absent never throw: every call, in either mode and under
\* every pattern of backend failures, ends by returning its ret dict.
C2_NeverThrows == pc = "done" => outcome = "returned"

\* C3: an apply-mode present on a user that does not exist, with no backend
\* failure, invokes add_user exactly once with the name and password, leaves
\* the user existing and returns success with changes.user = {old: '', new: name}.
C3_CreateOnce ==
    (op = "present" /\ pc = "done" /\ ~test /\ ~Existed /\ NoBackendFailure)
    => /\ outcome = "returned"
       /\ Count("add_user") = 1
       /\ \A i \in DOMAIN log : log[i].fn = "add_user" =>
            log[i].name = name /\ log[i].password = password
       /\ user_exists(rabbitmq, name)
       /\ ret.result = "True"
       /\ "user" \in DOMAIN ret.changes
       /\ ret.changes["user"] = [old |-> "", new |-> name]

\* C4: a present call (either mode) on an existing user with force false and
\* empty perms and tags returns success with empty changes and the
\* 'already present' comment.
C4_AlreadyPresentIsSuccess ==
    (op = "present" /\ pc = "done" /\ Existed /\ NoBackendFailure
        /\ ~force /\ perms = <<>> /\ tags = {})
    => /\ outcome = "returned"
       /\ ret.result = "True"
       /\ DOMAIN ret.changes = {}
       /\ ret.comment = format("User '{0}' is already present.", name)

\* C5: when the first call, user_exists, raises a CommandExecutionError,
\* present and absent return at once: result False, the error in the comment,
\* empty changes, no further backend call and an untouched broker.
C5_ExistsFailureReturnsAtOnce ==
    (log # <<>> /\ log[1].fn = "user_exists" /\ log[1].err # NoError)
    => /\ Len(log) = 1
       /\ pc = "done"
       /\ outcome = "returned"
       /\ ret.result = "False"
       /\ ret.comment = format("Error: {0}", log[1].err)
       /\ DOMAIN ret.changes = {}
       /\ rabbitmq = rabbitmq0

\* present's user_exists call has raised
C5_Witness ==
    /\ op = "present"
    /\ pc = "done"
    /\ log # <<>>
    /\ log[1].fn = "user_exists"
    /\ log[1].err \in Errors
    /\ ret.comment[2] = log[1].err

\* C6: in present the first backend call that raises ends the call: it is the
\* last backend call, the result is False with that error as comment, and what
\* earlier successful steps recorded in changes is still there.
C6_FirstFailureEndsCall ==
    op = "present" =>
        \A i \in DOMAIN log : log[i].err # NoError =>
            /\ i = Len(log)
            /\ pc = "done"
            /\ outcome = "returned"
            /\ ret.result = "False"
            /\ ret.comment = format("Error: {0}", log[i].err)
            /\ \A j \in 1..(i - 1) : log[j].fn \in Mutators =>
                    ChangeKey(log[j].fn) \in DOMAIN ret.changes

\* C7: for an existing user with observed tags O and desired tags T, present
\* applies set_user_tags (apply mode) or records changes.tags (dry-run)
\* exactly when T - O is non-empty.
C7_TagDeltaIsDesiredMinusObserved ==
    (op = "present" /\ pc = "done" /\ outcome = "returned" /\ Existed
        /\ NoBackendFailure)
    => /\ ("tags" \in DOMAIN ret.changes) <=> (tags \ Observed # {})
       /\ Count("set_user_tags") = IF ~test /\ tags \ Observed # {} THEN 1 ELSE 0

PendingVhosts ==
    {perms[i].vhost : i \in {k \in DOMAIN perms :
        LET observed == list_user_permissions(rabbitmq0, name) IN
            \/ perms[k].vhost \notin DOMAIN observed
            \/ observed[perms[k].vhost] # perms[k].perm}}

\* the first position of vhost v in the perms argument
FirstIndex(v) ==
    CHOOSE i \in DOMAIN perms :
        perms[i].vhost = v /\ \A k \in 1..(i - 1) : perms[k].vhost # v

\* C9: an apply-mode present on an existing user with no backend failure calls
\* set_permissions exactly once, with the desired triple, for every desired
\* vhost whose observed triple differs or is missing, in the order of the
\* perms argument.
C9_PermissionDelta ==
    (op = "present" /\ pc = "done" /\ ~test /\ Existed /\ NoBackendFailure)
    => /\ \A v \in PendingVhosts :
            /\ Cardinality({i \in DOMAIN log :
                    log[i].fn = "set_permissions" /\ log[i].vhost = v}) = 1
            /\ \A i \in DOMAIN log :
                    (log[i].fn = "set_permissions" /\ log[i].vhost = v)
                    => \E k \in DOMAIN perms :
                            perms[k].vhost = v /\ perms[k].perm = log[i].perm
       /\ \A i, j \in DOMAIN log :
            (i < j /\ log[i].fn = "set_permissions"
                   /\ log[j].fn = "set_permissions")
            => FirstIndex(log[i].vhost) < FirstIndex(log[j].vhost)

\* the call got past user_exists in apply mode on an existing user with force
ForcedApply ==
    /\ ~test
    /\ log # <<>>
    /\ log[1].err = NoError
    /\ user
    /\ force

\* the call is past the credential step of present
PastCredential ==
    pc \notin {"present_user_exists", "present_ensure",
               "present_change_password", "present_clear_password"}

\* C10: an apply-mode present on an existing user with force set invokes
\* exactly one of change_password and clear_password, once: change_password
\* iff a password is given, clear_password iff it is None, whose return records
\* changes.password = {old: 'Removed password.', new: ''}; without force, or
\* for a missing user, neither is invoked.
C10_CredentialUnderForce ==
    op = "present" =>
        LET cp == Count("change_password")
            cl == Count("clear_password")
        IN  /\ cp + cl <= 1
            /\ ~ForcedApply => cp + cl = 0
            /\ (ForcedApply /\ PastCredential) =>
                /\ password # NoPassword =>
                    /\ cp = 1
                    /\ cl = 0
                    /\ \A i \in DOMAIN log : log[i].fn = "change_password" =>
                            log[i].name = name /\ log[i].password = password
                /\ password = NoPassword =>
                    /\ cl = 1
                    /\ cp = 0
                    /\ Succeeded("clear_password") =>
                        /\ "password" \in DOMAIN ret.changes
                        /\ ret.changes["password"] =
                                [old |-> "Removed password.", new |-> ""]

\* a forced apply-mode present without password has cleared the credential
C10_Witness ==
    /\ op = "present"
    /\ pc = "done"
    /\ ForcedApply
    /\ password = NoPassword
    /\ Succeeded("clear_password")
    /\ Count("change_password") = 0
    /\ rabbitmq.passwords[name] = NoPassword
    /\ ret.changes["password"] = [old |-> "Removed password.", new |-> ""]

\* the call returned at the short circuit of lines 116-119
ShortCircuited == user /\ ~any(force, perms, tags)

\* C11: a present call that passes the short circuit and meets no backend
\* failure returns None exactly when it is a dry run with non-empty changes and
\* True otherwise, with the 'already in the desired state' comment exactly for
\* empty changes and the 'was configured' comment exactly for non-empty changes
\* in apply mode; an apply-mode call never has the result None.
C11_ResultAggregation ==
    /\ (op = "present" /\ ~test) => ret.result # "None"
    /\ (op = "present" /\ pc = "done" /\ outcome = "returned"
            /\ NoBackendFailure /\ ~ShortCircuited)
       => /\ ret.result \in {"None", "True"}
          /\ (ret.result = "None") <=> (test /\ DOMAIN ret.changes # {})
          /\ (ret.comment = format("'{0}' is already in the desired state.", name))
                <=> (DOMAIN ret.changes = {})
          /\ (ret.comment = format("'{0}' was configured.", name))
                <=> (~test /\ DOMAIN ret.changes # {})
          /\ (ret.comment = format("Configuration for '{0}' will change.", name))
                <=> (test /\ DOMAIN ret.changes # {})

\* a dry-run present has returned None for the changes it would make
C11_Witness ==
    /\ op = "present"
    /\ pc = "done"
    /\ outcome = "returned"
    /\ NoBackendFailure
    /\ ~ShortCircuited
    /\ test
    /\ DOMAIN ret.changes # {}
    /\ ret.result = "None"

\* C12: absent, once user_exists has answered: a missing user gives success,
\* the 'not present' comment, empty changes and no delete_user call in either
\* mode; an existing user in a dry run gives None, changes.name
\* = {old: name, new: ''} and no delete_user call; an existing user in apply
\* mode gets delete_user called exactly once, whose return gives success, the
\* same changes.name and the user gone, and whose failure gives result False,
\* the error as comment and empty changes.
C12_AbsentOutcome ==
    /\ op = "absent" => Count("delete_user") <= 1
    /\ (op = "absent" /\ pc = "done" /\ log # <<>> /\ log[1].err = NoError)
       => /\ outcome = "returned"
          /\ IF ~Existed
             THEN /\ ret.result = "True"
                  /\ ret.comment = format("The user '{0}' is not present.", name)
                  /\ DOMAIN ret.changes = {}
                  /\ Count("delete_user") = 0
                  /\ rabbitmq = rabbitmq0
             ELSE IF test
                  THEN /\ ret.result = "None"
                       /\ DOMAIN ret.changes = {"name"}
                       /\ ret.changes["name"] = [old |-> name, new |-> ""]
                       /\ Count("delete_user") = 0
                       /\ rabbitmq = rabbitmq0
                  ELSE /\ Count("delete_user") = 1
                       /\ IF Succeeded("delete_user")
                          THEN /\ ret.result = "True"
                               /\ DOMAIN ret.changes = {"name"}
                               /\ ret.changes["name"] = [old |-> name, new |-> ""]
                               /\ ~user_exists(rabbitmq, name)
                          ELSE /\ ret.result = "False"
                               /\ ret.comment =
                                    format("Error: {0}", log[Len(log)].err)
                               /\ DOMAIN ret.changes = {}
                               /\ rabbitmq = rabbitmq0

\* an apply-mode absent has deleted the user it found
C12_Witness ==
    /\ op = "absent"
    /\ pc = "done"
    /\ ~test
    /\ Existed
    /\ Succeeded("delete_user")
    /\ ~user_exists(rabbitmq, name)
    /\ ret.result = "True"

\* C13 as claimed: within one present call no backend read is issued after a
\* backend mutator has been invoked.
C13_NoReadAfterMutator ==
    op = "present" =>
        \A i, j \in DOMAIN log :
            (i < j /\ log[i].fn \in Mutators) => log[j].fn \notin Readers

\* C13 as amended: within one present call no read follows a mutator of what
\* it reads: user_exists is the first backend call and the only one of its
\* kind, list_users is never issued after set_user_tags and
\* list_user_permissions never after set_permissions.
C13_NoReadOfWhatWasMutated ==
    op = "present" =>
        /\ \A i \in DOMAIN log : (log[i].fn = "user_exists") <=> (i = 1)
        /\ \A i, j \in DOMAIN log :
            i < j =>
                /\ ~(log[i].fn = "set_user_tags" /\ log[j].fn = "list_users")
                /\ ~(log[i].fn = "set_permissions"
                        /\ log[j].fn = "list_user_permissions")

\* the permissions were read after the tags had been set
C13_Witness ==
    /\ op = "present"
    /\ \E i, j \in DOMAIN log :
        /\ i < j
        /\ log[i].fn = "set_user_tags"
        /\ log[i].err = NoError
        /\ log[j].fn = "list_user_permissions"
        /\ log[j].err = NoError

\* C14: in a present call on an existing user with no backend failure only the
\* pending permission entries are applied: no set_permissions call is made for
\* a vhost whose observed triple equals the desired one, and changes.perms is
\* recorded exactly when an entry is pending, its 'new' holding exactly the
\* pending entries keyed by vhost.
C14_OnlyPendingPermsApplied ==
    (op = "present" /\ pc = "done" /\ Existed /\ NoBackendFailure)
    => /\ \A i \in DOMAIN log :
            log[i].fn = "set_permissions" => log[i].vhost \in PendingVhosts
       /\ ("perms" \in DOMAIN ret.changes) <=> (PendingVhosts # {})
       /\ "perms" \in DOMAIN ret.changes =>
            /\ DOMAIN ret.changes["perms"].new = PendingVhosts
            /\ \A v \in PendingVhosts :
                    ret.changes["perms"].new[v] = perms[FirstIndex(v)].perm

\* C16: whenever an apply-mode present returns success the broker satisfies
\* the desired state: the user exists, holds every desired tag and has, for
\* every desired vhost, the desired triple.
C16_SuccessMeansConverged ==
    (op = "present" /\ pc = "done" /\ outcome = "returned" /\ ~test
        /\ ret.result = "True")
    => /\ user_exists(rabbitmq, name)
       /\ tags \subseteq rabbitmq.users[name]
       /\ \A k \in DOMAIN perms :
            /\ perms[k].vhost \in DOMAIN list_user_permissions(rabbitmq, name)
            /\ list_user_permissions(rabbitmq, name)[perms[k].vhost]
                    = perms[k].perm

\* two changes dicts hold the same entries
SameChanges(a, b) ==
    /\ DOMAIN a = DOMAIN b
    /\ \A k \in DOMAIN a : a[k] = b[k]

\* the running call repeats, in apply mode, a present call that returned
\* without any backend failure; dry tells the mode of that first call
Repeats(dry) ==
    /\ op = "present"
    /\ ~test
    /\ prev.op = "present"
    /\ prev.test = dry
    /\ prev.outcome = "returned"
    /\ ~prev.failed

\* C15: a dry-run present and an apply-mode present with the same arguments
\* on the same broker state, no backend call failing, return the same changes;
\* they differ only in the result (None against True) and in the broker being
\* mutated.
C15_DryRunPredictsApply ==
    (Repeats(TRUE) /\ ~prev.mutated /\ pc = "done" /\ NoBackendFailure)
    => /\ outcome = "returned"
       /\ SameChanges(ret.changes, prev.changes)
       /\ DOMAIN prev.changes # {} =>
            prev.result = "None" /\ ret.result = "True"

====
